---- MODULE Spec2Model ----
(***************************************************************************)
(* Model of lib/index.js, the log4js GELF appender: gelfAppender builds a  *)
(* GELF packet from a logging event, serialises it with JSON.stringify,    *)
(* compresses it with zlib.gzip and sends it over one UDP socket.          *)
(*                                                                         *)
(* JavaScript values are records tagged by their type (field t).  Objects  *)
(* carry their own enumerable properties as a function from key to value   *)
(* (field f) and a flag cyc telling whether the object graph reachable     *)
(* from them contains a cycle.  Property keys are strings.                 *)
(***************************************************************************)
EXTENDS Integers, Sequences, FiniteSets, TLC

(***************************************************************************)
(* JavaScript values                                                       *)
(***************************************************************************)
Undefined == [t |-> "undefined"]
Null == [t |-> "null"]
Str(s) == [t |-> "string", v |-> s]
Num(n) == [t |-> "number", v |-> n]
Bool(b) == [t |-> "boolean", v |-> b]
Obj(fields) == [t |-> "object", f |-> fields, cyc |-> FALSE]
CyclicObj(fields) == [t |-> "object", f |-> fields, cyc |-> TRUE]

EmptyFields == [k \in {} |-> Undefined]

\* ToBoolean: undefined, null, "", 0 and false are falsy, objects are truthy
Truthy(v) ==
  CASE v.t = "undefined" -> FALSE
    [] v.t = "null" -> FALSE
    [] v.t = "string" -> v.v # ""
    [] v.t = "number" -> v.v # 0
    [] v.t = "boolean" -> v.v
    [] OTHER -> TRUE

\* v.k on a truthy value: an own property of an object, undefined on a
\* primitive (none of the keys read by the appender is a prototype property)
GetProp(v, k) ==
  IF v.t = "object" /\ k \in DOMAIN v.f THEN v.f[k] ELSE Undefined

\* Object.keys(v): the own enumerable keys; a primitive has none
ObjectKeys(v) == IF v.t = "object" THEN DOMAIN v.f ELSE {}

\* obj[k] = v
SetProp(obj, k, v) == [x \in DOMAIN obj \cup {k} |-> IF x = k THEN v ELSE obj[x]]

\* data[i] for a 0-based index i of a JavaScript array
At(data, i) == IF i + 1 <= Len(data) THEN data[i + 1] ELSE Undefined

\* mutation of Shift: the first element is not removed
ShiftKeepsFirst(data) == data

\* data.shift(): the array without its first element
Shift(data) == IF Len(data) = 0 THEN data ELSE Tail(data)

(***************************************************************************)
(* Program constants                                                       *)
(***************************************************************************)
LOG_CRIT == 2
LOG_ERROR == 3
LOG_WARNING == 4
LOG_INFO == 6
LOG_DEBUG == 7
MaxPacketLength == 8192
DefaultPort == 12201
DefaultHost == "localhost"
OSHostname == "os-host"

\* mutation of levelMapping: WARN mapped to LOG_NOTICE (5)
levelMappingWarnAsNotice ==
  [l \in {"ALL", "TRACE", "DEBUG", "INFO", "WARN", "ERROR", "FATAL"} |->
     CASE l \in {"ALL", "TRACE", "DEBUG"} -> LOG_DEBUG
       [] l = "INFO" -> LOG_INFO
       [] l = "WARN" -> 5
       [] l = "ERROR" -> LOG_ERROR
       [] l = "FATAL" -> LOG_CRIT]

\* levelMapping, keyed by the string form of the level
levelMapping ==
  [l \in {"ALL", "TRACE", "DEBUG", "INFO", "WARN", "ERROR", "FATAL"} |->
     CASE l \in {"ALL", "TRACE", "DEBUG"} -> LOG_DEBUG
       [] l = "INFO" -> LOG_INFO
       [] l = "WARN" -> LOG_WARNING
       [] l = "ERROR" -> LOG_ERROR
       [] l = "FATAL" -> LOG_CRIT]

\* levelMapping[loggingEvent.level]: undefined for a level not in the table
MapLevel(level) ==
  IF level \in DOMAIN levelMapping THEN Num(levelMapping[level]) ELSE Undefined

(***************************************************************************)
(* Construction: the values gelfAppender derives from config               *)
(***************************************************************************)
\* config.x || dflt for an option given as a JavaScript value
OrDefault(opt, dflt) == IF Truthy(opt) THEN opt ELSE dflt

\* defaultCustomFields = customFields || {}, plus _facility when facility
MakeDefaultCustomFields(customFields, facility) ==
  LET base == IF Truthy(customFields) THEN customFields.f ELSE EmptyFields
  IN IF Truthy(facility) THEN SetProp(base, "_facility", facility) ELSE base

(***************************************************************************)
(* Field merger and packet builder                                         *)
(***************************************************************************)
\* mutation of AcceptKey: the test for the leading underscore is missing
AcceptKeyAnyPrefix(key) == key # "_id"

\* key.match(/^_/) && key !== '_id'
AcceptKey(key) == Len(key) >= 1 /\ SubSeq(key, 1, 1) = "_" /\ key # "_id"

\* mutation of CopyAccepted: a key already in msg keeps its value
CopyAcceptedKeepExisting(src, msg) ==
  [k \in DOMAIN msg \cup {x \in DOMAIN src : AcceptKey(x)} |->
     IF k \in DOMAIN msg THEN msg[k] ELSE src[k]]

\* forEach over the keys of src, copying the accepted ones into msg
CopyAccepted(src, msg) ==
  [k \in DOMAIN msg \cup {x \in DOMAIN src : AcceptKey(x)} |->
     IF k \in DOMAIN src /\ AcceptKey(k) THEN src[k] ELSE msg[k]]

\* mutation of addCustomFields: the GELF key is not looked at, every truthy
\* first data item is taken as a carrier
addCustomFieldsNoGelfCheck(dcf, appCat, loggingEvent, msg) ==
  LET m1 == CopyAccepted(dcf, msg)
      m2 == IF Truthy(appCat)
              THEN SetProp(m1, "_" \o appCat.v, loggingEvent.categoryName)
              ELSE m1
      data == loggingEvent.data
      firstData == At(data, 0)
  IN IF Truthy(firstData)
       THEN [msg |-> CopyAccepted([k \in ObjectKeys(firstData) |-> firstData.f[k]], m2),
             data |-> Shift(data)]
       ELSE [msg |-> m2, data |-> data]

\* mutation of addCustomFields: the category key is set before the defaults
\* are copied, so a default on the same key overwrites it
addCustomFieldsCategoryFirst(dcf, appCat, loggingEvent, msg) ==
  LET m1 == IF Truthy(appCat)
              THEN SetProp(msg, "_" \o appCat.v, loggingEvent.categoryName)
              ELSE msg
      m2 == CopyAccepted(dcf, m1)
      data == loggingEvent.data
      firstData == At(data, 0)
  IN IF Truthy(firstData)
       THEN IF ~Truthy(GetProp(firstData, "GELF"))
              THEN [msg |-> m2, data |-> data]
              ELSE [msg |-> CopyAccepted(firstData.f, m2), data |-> Shift(data)]
       ELSE [msg |-> m2, data |-> data]

\* addCustomFields(loggingEvent, msg): the filled msg and the event's data
addCustomFields(dcf, appCat, loggingEvent, msg) ==
  LET m1 == CopyAccepted(dcf, msg)
      m2 == IF Truthy(appCat)
              THEN SetProp(m1, "_" \o appCat.v, loggingEvent.categoryName)
              ELSE m1
      data == loggingEvent.data
      firstData == At(data, 0)
  IN IF Truthy(firstData)
       THEN IF ~Truthy(GetProp(firstData, "GELF"))
              THEN [msg |-> m2, data |-> data]
              ELSE [msg |-> CopyAccepted(firstData.f, m2), data |-> Shift(data)]
       ELSE [msg |-> m2, data |-> data]

\* mutation of preparePacket: full_message is read from the data as it was
\* passed in, before addCustomFields removed the carrier
preparePacketFullFromPassed(dcf, appCat, hostName, loggingEvent, now) ==
  LET r == addCustomFields(dcf, appCat, loggingEvent, EmptyFields)
      data == r.data
      m1 == SetProp(r.msg, "short_message", At(data, 0))
      m2 == IF Truthy(At(loggingEvent.data, 1))
              THEN SetProp(m1, "full_message",
                           GetProp(At(loggingEvent.data, 1), "stack"))
              ELSE SetProp(m1, "full_message", Str(""))
      m3 == SetProp(m2, "version", Str("1.1"))
      ts == IF "timestamp" \in DOMAIN m3 /\ Truthy(m3["timestamp"])
              THEN m3["timestamp"] ELSE Num(now)
      m4 == SetProp(m3, "timestamp", ts)
      m5 == SetProp(m4, "host", hostName)
      m6 == SetProp(m5, "level", MapLevel(loggingEvent.level))
  IN [msg |-> m6, data |-> data]

\* preparePacket(loggingEvent) at wall-clock time now: msg and the event's data
preparePacket(dcf, appCat, hostName, loggingEvent, now) ==
  LET r == addCustomFields(dcf, appCat, loggingEvent, EmptyFields)
      data == r.data
      m1 == SetProp(r.msg, "short_message", At(data, 0))
      m2 == IF Truthy(At(data, 1))
              THEN SetProp(m1, "full_message", GetProp(At(data, 1), "stack"))
              ELSE SetProp(m1, "full_message", Str(""))
      m3 == SetProp(m2, "version", Str("1.1"))
      ts == IF "timestamp" \in DOMAIN m3 /\ Truthy(m3["timestamp"])
              THEN m3["timestamp"] ELSE Num(now)
      m4 == SetProp(m3, "timestamp", ts)
      m5 == SetProp(m4, "host", hostName)
      m6 == SetProp(m5, "level", MapLevel(loggingEvent.level))
  IN [msg |-> m6, data |-> data]

(***************************************************************************)
(* JSON.stringify(message)                                                 *)
(***************************************************************************)
\* a cycle anywhere in the value makes JSON.stringify throw a TypeError
HasCycle(v) == v.t = "object" /\ v.cyc

\* the JSON form of a value: in an object, members whose value is undefined
\* are left out (member values of the objects modelled are primitives)
JsonValue(v) ==
  IF v.t = "object"
    THEN [t |-> "object",
          f |-> [k \in {x \in DOMAIN v.f : v.f[x].t # "undefined"} |-> v.f[k]]]
    ELSE v

\* JSON.stringify(msg): throws on a cycle, else the text, given by the
\* members it encodes
JSONstringify(msg) ==
  IF \E k \in DOMAIN msg : HasCycle(msg[k])
    THEN [threw |-> TRUE, json |-> EmptyFields]
    ELSE [threw |-> FALSE,
          json |-> [k \in {x \in DOMAIN msg : msg[x].t # "undefined"} |->
                      JsonValue(msg[k])]]

(***************************************************************************)
(* zlib.gzip and the size check                                            *)
(***************************************************************************)
\* lengths zlib.gzip may produce for a packet, around the 8k limit
PacketLengths == {MaxPacketLength - 1, MaxPacketLength, MaxPacketLength + 1}

\* the buffer zlib.gzip passes to its callback
GzipBuffer(json, len) == [payload |-> json, length |-> len]

\* mutation of TooLarge: a packet of exactly 8192 bytes is dropped too
TooLargeOffByOne(packet) == packet.length >= MaxPacketLength

\* packet.length > 8192
TooLarge(packet) == packet.length > MaxPacketLength

(***************************************************************************)
(* Bounds and input universes                                              *)
(***************************************************************************)
MaxEvents == 2
MaxShutdowns == 2
MaxTime == 2

Times == 1..MaxTime
Levels == {"ALL", "TRACE", "DEBUG", "INFO", "WARN", "ERROR", "FATAL", "OFF", "MARK"}

Fields1(k1, v1) == [k \in {k1} |-> v1]
Fields2(k1, v1, k2, v2) == SetProp(Fields1(k1, v1), k2, v2)
Fields3(k1, v1, k2, v2, k3, v3) == SetProp(Fields2(k1, v1, k2, v2), k3, v3)

\* config.customFields
CustomFieldsOptions ==
  { Undefined,
    Obj(Fields2("_a", Num(1), "_id", Num(99))),
    Obj(Fields3("_a", Num(1), "_cat", Str("dflt"), "host", Str("evil"))) }
\* config.facility
FacilityOptions == {Undefined, Str("nodejs-server")}
\* config.appendCategory
AppendCategoryOptions == {Undefined, Str("cat"), Str("id")}
\* config.hostname, config.host and config.port: all absent or all given
NetworkOptions ==
  { [hostname |-> Undefined, host |-> Undefined, port |-> Undefined],
    [hostname |-> Str("web1"), host |-> Str("graylog"), port |-> Num(12202)] }

Configs ==
  { [customFields |-> cf, facility |-> fa, appendCategory |-> ac,
     hostname |-> n.hostname, host |-> n.host, port |-> n.port] :
      cf \in CustomFieldsOptions, fa \in FacilityOptions,
      ac \in AppendCategoryOptions, n \in NetworkOptions }

LifecycleConfigs ==
  { c \in Configs : /\ c.facility = Undefined
                    /\ c.appendCategory = Str("cat")
                    /\ c.customFields # Undefined
                    /\ "_cat" \in DOMAIN c.customFields.f }

\* an error-like second data item
ErrorItem == Obj(Fields1("stack", Str("trace...")))
\* a per-event custom field carrier
Carrier ==
  Obj([k \in {"GELF", "_x", "_a", "_id", "_cat", "level", "timestamp"} |->
         CASE k = "GELF" -> Bool(TRUE)
           [] k = "_x" -> Num(5)
           [] k = "_a" -> Num(2)
           [] k = "_id" -> Num(7)
           [] k = "_cat" -> Str("ev")
           [] k = "level" -> Num(0)
           [] k = "timestamp" -> Num(9)])

\* first data items: carriers, objects that are no carrier, primitives
FirstItems ==
  { Carrier,
    Obj(Fields1("GELF", Bool(TRUE))),
    Obj(Fields2("GELF", Str("yes"), "_c", CyclicObj(EmptyFields))),
    Obj(Fields2("GELF", Bool(FALSE), "_x", Num(5))),
    Obj(Fields1("_x", Num(5))),
    Null, Str(""), Num(5) }

\* the data items after an optional first one
Rests ==
  { <<>>, <<Str("msg")>>, <<Str("msg"), ErrorItem>>,
    <<Str("msg"), Str("detail")>>, <<Str("msg"), Num(0)>>,
    <<CyclicObj(EmptyFields)>> }

DataSeqs == Rests \cup { <<fi>> \o r : fi \in FirstItems, r \in Rests }

Events ==
  { [data |-> d, level |-> l, categoryName |-> Str("cheese")] :
      d \in DataSeqs, l \in Levels }

LifecycleEvents ==
  { e \in Events : \/ /\ e.level = "INFO"
                       /\ e.data \in { <<Str("msg")>>, <<Carrier, Str("msg")>>,
                                       <<CyclicObj(EmptyFields)>> }
                    \/ /\ e.level = "OFF"
                       /\ e.data = <<>> }

(***************************************************************************)
(* State                                                                   *)
(***************************************************************************)
VARIABLES
  defaultCustomFields,  \* the object the closure holds as default fields
  appendCategory,       \* config.appendCategory || undefined
  hostname,             \* config.hostname || OS.hostname()
  host,                 \* config.host || 'localhost'
  port,                 \* config.port || 12201
  clientOpen,           \* the dgram socket has not been closed
  closeCalls,           \* number of client.close calls made so far
  closeListeners,       \* callbacks registered for the socket's close event
  exitListener,         \* the exit hook is registered on process
  exited,               \* the process has emitted exit
  nextId,               \* number of append calls made so far
  pending,              \* zlib.gzip jobs whose callback has not run
  gzipResults,          \* what each gzip callback received
  sendCalls,            \* client.send calls, in call order
  sendPending,          \* sends whose callback has not run
  dropped,              \* events whose packet was larger than 8k
  errors,               \* reports written with console.error
  uncaught,             \* exceptions thrown out of a callback
  lastCall              \* the last call of app or app.shutdown and its effect

vars == <<defaultCustomFields, appendCategory, hostname, host, port,
          clientOpen, closeCalls, closeListeners, exitListener, exited,
          nextId, pending, gzipResults, sendCalls, sendPending, dropped,
          errors, uncaught, lastCall>>

configVars == <<defaultCustomFields, appendCategory, hostname, host, port>>
socketVars == <<clientOpen, closeCalls, closeListeners, exitListener, exited>>

\* gelfAppender(layout, config, levels): the state after construction
gelfAppender(config) ==
  /\ appendCategory = OrDefault(config.appendCategory, Undefined)
  /\ host = OrDefault(config.host, Str(DefaultHost))
  /\ port = OrDefault(config.port, Num(DefaultPort))
  /\ hostname = OrDefault(config.hostname, Str(OSHostname))
  /\ defaultCustomFields =
       MakeDefaultCustomFields(config.customFields, config.facility)
  /\ clientOpen = TRUE
  /\ closeCalls = 0
  /\ closeListeners = 0
  /\ exitListener = TRUE
  /\ exited = FALSE
  /\ nextId = 0
  /\ pending = {}
  /\ gzipResults = {}
  /\ sendCalls = <<>>
  /\ sendPending = {}
  /\ dropped = {}
  /\ errors = {}
  /\ uncaught = {}
  /\ lastCall = [op |-> "none"]

Init == \E config \in LifecycleConfigs : gelfAppender(config)
InitPacket == \E config \in Configs : gelfAppender(config)

\* the process runs JavaScript: it has not exited and no callback has thrown
Running == ~exited /\ uncaught = {}

(***************************************************************************)
(* Operations                                                              *)
(***************************************************************************)
\* sendPacket(packet) for the event id: client.send(packet, 0, packet.length,
\* port, host, cb).  dgram's send throws ERR_SOCKET_DGRAM_NOT_RUNNING when the
\* socket has been closed, inside the gzip callback that called it.
sendPacket(id, packet) ==
  /\ sendCalls' = Append(sendCalls,
                         [id |-> id, buffer |-> packet, offset |-> 0,
                          length |-> packet.length, port |-> port,
                          address |-> host])
  /\ IF clientOpen
       THEN /\ sendPending' = sendPending \cup {id}
            /\ UNCHANGED uncaught
       ELSE /\ uncaught' = uncaught \cup {[id |-> id, from |-> "send"]}
            /\ UNCHANGED sendPending

\* mutation of App: the packet is compressed with zlib.gzipSync and the size
\* check and the send run before the call returns
AppCompressesInline(loggingEvent, now, cap) ==
  /\ Running
  /\ nextId < cap
  /\ LET r == preparePacket(defaultCustomFields, appendCategory, hostname,
                            loggingEvent, now)
         s == JSONstringify(r.msg)
         id == nextId + 1
     IN /\ nextId' = id
        /\ lastCall' = [op |-> "append", id |-> id, event |-> loggingEvent,
                        data |-> r.data, msg |-> r.msg, now |-> now,
                        threw |-> s.threw]
        /\ IF s.threw
             THEN UNCHANGED <<gzipResults, sendCalls, sendPending, dropped,
                              uncaught>>
             ELSE \E len \in PacketLengths :
                    LET packet == GzipBuffer(s.json, len)
                    IN /\ gzipResults' = gzipResults \cup
                            {[id |-> id, err |-> FALSE, packet |-> packet]}
                       /\ IF TooLarge(packet)
                            THEN /\ dropped' = dropped \cup {id}
                                 /\ UNCHANGED <<sendCalls, sendPending, uncaught>>
                            ELSE /\ sendPacket(id, packet)
                                 /\ UNCHANGED dropped
  /\ UNCHANGED <<configVars, socketVars, pending, errors>>

\* mutation of App: msg is the defaults object itself instead of a fresh
\* object, so the fields copied for one event stay in the defaults
AppMergesIntoDefaults(loggingEvent, now, cap) ==
  /\ Running
  /\ nextId < cap
  /\ LET r == preparePacket(defaultCustomFields, appendCategory, hostname,
                            loggingEvent, now)
         s == JSONstringify(r.msg)
         id == nextId + 1
     IN /\ nextId' = id
        /\ lastCall' = [op |-> "append", id |-> id, event |-> loggingEvent,
                        data |-> r.data, msg |-> r.msg, now |-> now,
                        threw |-> s.threw]
        /\ pending' = IF s.threw THEN pending
                      ELSE pending \cup {[id |-> id, json |-> s.json]}
        /\ defaultCustomFields' = r.msg
  /\ UNCHANGED <<appendCategory, hostname, host, port, socketVars, gzipResults,
                 sendCalls, sendPending, dropped, errors, uncaught>>

\* app(loggingEvent), called at time now; cap bounds the number of calls.
\* JSON.stringify runs inside the call, zlib.gzip only queues the work.
App(loggingEvent, now, cap) ==
  /\ Running
  /\ nextId < cap
  /\ LET r == preparePacket(defaultCustomFields, appendCategory, hostname,
                            loggingEvent, now)
         s == JSONstringify(r.msg)
         id == nextId + 1
     IN /\ nextId' = id
        /\ lastCall' = [op |-> "append", id |-> id, event |-> loggingEvent,
                        data |-> r.data, msg |-> r.msg, now |-> now,
                        threw |-> s.threw]
        /\ pending' = IF s.threw THEN pending
                      ELSE pending \cup {[id |-> id, json |-> s.json]}
  /\ UNCHANGED <<configVars, socketVars, gzipResults, sendCalls, sendPending,
                 dropped, errors, uncaught>>

\* mutation of GzipCallback: completions are delivered in append order, a
\* job waits until every job queued before it has completed
GzipCallbackInOrder(job) ==
  /\ Running
  /\ job \in pending
  /\ \A other \in pending : job.id <= other.id
  /\ \E err \in BOOLEAN, len \in PacketLengths :
       LET packet == GzipBuffer(job.json, len)
       IN /\ pending' = pending \ {job}
          /\ IF err
               THEN /\ gzipResults' = gzipResults \cup {[id |-> job.id, err |-> TRUE]}
                    /\ errors' = errors \cup {[id |-> job.id, from |-> "gzip"]}
                    /\ UNCHANGED <<dropped, sendCalls, sendPending, uncaught>>
               ELSE /\ gzipResults' = gzipResults \cup
                         {[id |-> job.id, err |-> FALSE, packet |-> packet]}
                    /\ IF TooLarge(packet)
                         THEN /\ dropped' = dropped \cup {job.id}
                              /\ UNCHANGED <<sendCalls, sendPending, uncaught>>
                         ELSE /\ sendPacket(job.id, packet)
                              /\ UNCHANGED dropped
                    /\ UNCHANGED errors
  /\ UNCHANGED <<configVars, socketVars, nextId, lastCall>>

\* the callback of zlib.gzip for one queued job: (err, packet) => ...
GzipCallback(job) ==
  /\ Running
  /\ job \in pending
  /\ \E err \in BOOLEAN, len \in PacketLengths :
       LET packet == GzipBuffer(job.json, len)
       IN /\ pending' = pending \ {job}
          /\ IF err
               THEN /\ gzipResults' = gzipResults \cup {[id |-> job.id, err |-> TRUE]}
                    /\ errors' = errors \cup {[id |-> job.id, from |-> "gzip"]}
                    /\ UNCHANGED <<dropped, sendCalls, sendPending, uncaught>>
               ELSE /\ gzipResults' = gzipResults \cup
                         {[id |-> job.id, err |-> FALSE, packet |-> packet]}
                    /\ IF TooLarge(packet)
                         THEN /\ dropped' = dropped \cup {job.id}
                              /\ UNCHANGED <<sendCalls, sendPending, uncaught>>
                         ELSE /\ sendPacket(job.id, packet)
                              /\ UNCHANGED dropped
                    /\ UNCHANGED errors
  /\ UNCHANGED <<configVars, socketVars, nextId, lastCall>>

\* the callback of any queued job may run next
GzipDone == \E job \in pending : GzipCallback(job)

\* mutation of SendDone: a failed send is issued again
SendDoneRetries ==
  /\ Running
  /\ \E id \in sendPending, err \in BOOLEAN :
       IF err
         THEN /\ errors' = errors \cup {[id |-> id, from |-> "send"]}
              /\ \E i \in 1..Len(sendCalls) :
                   /\ sendCalls[i].id = id
                   /\ sendCalls' = Append(sendCalls, sendCalls[i])
              /\ UNCHANGED sendPending
         ELSE /\ sendPending' = sendPending \ {id}
              /\ UNCHANGED <<errors, sendCalls>>
  /\ UNCHANGED <<configVars, socketVars, nextId, pending, gzipResults,
                 dropped, uncaught, lastCall>>

\* the callback of client.send: (err) => { if (err) console.error(err) }
SendDone ==
  /\ Running
  /\ \E id \in sendPending, err \in BOOLEAN :
       /\ sendPending' = sendPending \ {id}
       /\ errors' = IF err THEN errors \cup {[id |-> id, from |-> "send"]}
                    ELSE errors
  /\ UNCHANGED <<configVars, socketVars, nextId, pending, gzipResults,
                 sendCalls, dropped, uncaught, lastCall>>

\* mutation of Shutdown: the exit hook is left registered
ShutdownKeepsListener ==
  /\ Running
  /\ closeCalls < MaxShutdowns
  /\ \E cb \in BOOLEAN :
       closeListeners' = IF cb THEN closeListeners + 1 ELSE closeListeners
  /\ closeCalls' = closeCalls + 1
  /\ IF clientOpen
       THEN /\ clientOpen' = FALSE
            /\ lastCall' = [op |-> "shutdown", threw |-> FALSE]
       ELSE /\ UNCHANGED clientOpen
            /\ lastCall' = [op |-> "shutdown", threw |-> TRUE]
  /\ UNCHANGED <<configVars, exitListener, exited, nextId, pending,
                 gzipResults, sendCalls, sendPending, dropped, errors, uncaught>>

\* app.shutdown(cb): client.close(cb), then process.removeListener.
\* dgram's close throws ERR_SOCKET_DGRAM_NOT_RUNNING on a closed socket, so
\* the removeListener line is then not reached.
Shutdown ==
  /\ Running
  /\ closeCalls < MaxShutdowns
  /\ \E cb \in BOOLEAN :
       closeListeners' = IF cb THEN closeListeners + 1 ELSE closeListeners
  /\ closeCalls' = closeCalls + 1
  /\ IF clientOpen
       THEN /\ clientOpen' = FALSE
            /\ exitListener' = FALSE
            /\ lastCall' = [op |-> "shutdown", threw |-> FALSE]
       ELSE /\ UNCHANGED <<clientOpen, exitListener>>
            /\ lastCall' = [op |-> "shutdown", threw |-> TRUE]
  /\ UNCHANGED <<configVars, exited, nextId, pending, gzipResults, sendCalls,
                 sendPending, dropped, errors, uncaught>>

\* the process emits exit: the hook () => client.close() runs if registered
ProcessExit ==
  /\ ~exited
  /\ exited' = TRUE
  /\ IF exitListener
       THEN /\ closeCalls' = closeCalls + 1
            /\ clientOpen' = FALSE
       ELSE UNCHANGED <<closeCalls, clientOpen>>
  /\ UNCHANGED <<configVars, closeListeners, exitListener, nextId, pending,
                 gzipResults, sendCalls, sendPending, dropped, errors,
                 uncaught, lastCall>>

\* the clock of the lifecycle runs advances by one with every call
AppendEvent == \E ev \in LifecycleEvents : App(ev, nextId + 1, MaxEvents)
AppendOne == \E ev \in Events, now \in Times : App(ev, now, 1)

Next == AppendEvent \/ GzipDone \/ SendDone \/ Shutdown \/ ProcessExit
Spec == Init /\ [][Next]_vars

\* one event taken through the pipeline, over all configurations and events
NextPacket == AppendOne \/ GzipDone \/ SendDone
SpecPacket == InitPacket /\ [][NextPacket]_vars

(***************************************************************************)
(* Properties                                                              *)
(***************************************************************************)
\* the send calls made for the event id
SendsOf(id) == {i \in 1..Len(sendCalls) : sendCalls[i].id = id}

\* C1: for every event whose compression succeeded, client.send is called
\* for it iff the compressed buffer is at most 8192 bytes long, and every
\* such call passes exactly that buffer, whole, to the configured port and host
C1_SentIffWithinLimit ==
  \A r \in gzipResults :
    ~r.err =>
      /\ (r.packet.length <= 8192) <=> (SendsOf(r.id) # {})
      /\ \A i \in SendsOf(r.id) :
           /\ sendCalls[i].buffer = r.packet
           /\ sendCalls[i].offset = 0
           /\ sendCalls[i].length = r.packet.length
           /\ sendCalls[i].port = port
           /\ sendCalls[i].address = host

\* a buffer of exactly 8192 bytes was sent and one of 8193 bytes was not
C1_Witness ==
  /\ \E r \in gzipResults :
       ~r.err /\ r.packet.length = 8192 /\ SendsOf(r.id) # {}
  /\ \E r \in gzipResults :
       ~r.err /\ r.packet.length = 8193 /\ SendsOf(r.id) = {} /\ r.id \in dropped

\* C2: no call of append throws to its caller
C2_AppendNeverThrows == lastCall.op = "append" => ~lastCall.threw

\* C3: no shutdown call throws and client.close is attempted at most once
C3_ShutdownIdempotent ==
  /\ closeCalls <= 1
  /\ lastCall.op = "shutdown" => ~lastCall.threw

\* C4: a send racing with shutdown never ends in an uncaught exception
C4_RaceNeverUncaught == uncaught = {}

\* the first data item of the event of the last append, as it was passed in
FirstPassed == At(lastCall.event.data, 0)

\* the last call was an append whose first data item is an object with a
\* truthy GELF key
CarrierAppended ==
  /\ lastCall.op = "append"
  /\ FirstPassed.t = "object"
  /\ "GELF" \in DOMAIN FirstPassed.f
  /\ Truthy(FirstPassed.f["GELF"])

\* the last call was an append whose first data item is absent, a primitive
\* or an object without a truthy GELF key
NoCarrierAppended == lastCall.op = "append" /\ ~CarrierAppended

\* the key begins with '_' and is not '_id'
Accepted(k) == Len(k) > 0 /\ SubSeq(k, 1, 1) = "_" /\ k # "_id"

\* the key append sets to the category name, if appendCategory is configured
IsCategoryKey(k) == appendCategory.t = "string" /\ k = "_" \o appendCategory.v

\* C5: an append of an event whose first data item is a GELF carrier copies
\* every accepted own key of the carrier into the packet with the carrier's
\* value, removes exactly that item from the event's data, and sets
\* short_message to the item that was second
C5_CarrierConsumed ==
  CarrierAppended =>
    /\ \A k \in DOMAIN FirstPassed.f :
         Accepted(k) =>
           k \in DOMAIN lastCall.msg /\ lastCall.msg[k] = FirstPassed.f[k]
    /\ Len(lastCall.data) = Len(lastCall.event.data) - 1
    /\ \A i \in 1..Len(lastCall.data) : lastCall.data[i] = lastCall.event.data[i + 1]
    /\ lastCall.msg["short_message"] =
         (IF Len(lastCall.event.data) >= 2 THEN lastCall.event.data[2]
          ELSE Undefined)

\* a carrier followed by a message was appended and its field _x copied
C5_Witness ==
  /\ CarrierAppended
  /\ lastCall.event.data = <<Carrier, Str("msg")>>
  /\ lastCall.msg["_x"] = Num(5)
  /\ lastCall.data = <<Str("msg")>>
  /\ lastCall.msg["short_message"] = Str("msg")

\* C6: the packet built by append never has a key _id
C6_NoIdKey == lastCall.op = "append" => "_id" \notin DOMAIN lastCall.msg

\* C7: an append of an event without a GELF carrier copies no per-event
\* field, leaves the event's data as passed and uses the first item (or
\* undefined when there is none) as short_message
C7_NoCarrierNoChange ==
  NoCarrierAppended =>
    /\ \A k \in DOMAIN lastCall.msg :
         (Len(k) > 0 /\ SubSeq(k, 1, 1) = "_") =>
           \/ IsCategoryKey(k) /\ lastCall.msg[k] = lastCall.event.categoryName
           \/ k \in DOMAIN defaultCustomFields
                /\ lastCall.msg[k] = defaultCustomFields[k]
    /\ lastCall.data = lastCall.event.data
    /\ lastCall.msg["short_message"] =
         (IF Len(lastCall.event.data) >= 1 THEN lastCall.event.data[1]
          ELSE Undefined)

\* an object with a falsy GELF key and a field _x was appended as a message
C7_Witness ==
  /\ NoCarrierAppended
  /\ Len(lastCall.event.data) = 2
  /\ FirstPassed = Obj(Fields2("GELF", Bool(FALSE), "_x", Num(5)))
  /\ "_x" \notin DOMAIN lastCall.msg
  /\ lastCall.msg["short_message"] = FirstPassed
  /\ ~lastCall.threw

\* the carrier of the last append defines the key
CarrierDefines(k) == CarrierAppended /\ k \in DOMAIN FirstPassed.f

\* C8 as stated: every accepted key has the carrier's value when the carrier
\* defines it, and otherwise the default's value when the defaults define it
C8_Precedence ==
  lastCall.op = "append" =>
    \A k \in DOMAIN defaultCustomFields \cup ObjectKeys(FirstPassed) :
      Accepted(k) =>
        /\ CarrierDefines(k) =>
             k \in DOMAIN lastCall.msg /\ lastCall.msg[k] = FirstPassed.f[k]
        /\ (~CarrierDefines(k) /\ k \in DOMAIN defaultCustomFields) =>
             k \in DOMAIN lastCall.msg /\ lastCall.msg[k] = defaultCustomFields[k]

\* C8 amended: the same, except that a default-only key equal to the category
\* key holds the category name
C8_PrecedenceAmended ==
  lastCall.op = "append" =>
    \A k \in DOMAIN defaultCustomFields \cup ObjectKeys(FirstPassed) :
      Accepted(k) =>
        /\ CarrierDefines(k) =>
             k \in DOMAIN lastCall.msg /\ lastCall.msg[k] = FirstPassed.f[k]
        /\ (~CarrierDefines(k) /\ k \in DOMAIN defaultCustomFields) =>
             /\ k \in DOMAIN lastCall.msg
             /\ lastCall.msg[k] = (IF IsCategoryKey(k)
                                     THEN lastCall.event.categoryName
                                     ELSE defaultCustomFields[k])

\* the carrier's _a overwrote the default _a, and a default-only key is kept
C8_Witness ==
  /\ CarrierAppended
  /\ "_a" \in DOMAIN defaultCustomFields /\ defaultCustomFields["_a"] = Num(1)
  /\ FirstPassed = Carrier
  /\ lastCall.msg["_a"] = Num(2)
  /\ "_facility" \in DOMAIN defaultCustomFields
  /\ lastCall.msg["_facility"] = defaultCustomFields["_facility"]

\* C9: the packet's level is 7 for ALL, TRACE and DEBUG, 6 for INFO, 4 for
\* WARN, 3 for ERROR, 2 for FATAL and undefined for any other level
C9_LevelMapped ==
  lastCall.op = "append" =>
    lastCall.msg["level"] =
      CASE lastCall.event.level \in {"ALL", "TRACE", "DEBUG"} -> Num(7)
        [] lastCall.event.level = "INFO" -> Num(6)
        [] lastCall.event.level = "WARN" -> Num(4)
        [] lastCall.event.level = "ERROR" -> Num(3)
        [] lastCall.event.level = "FATAL" -> Num(2)
        [] OTHER -> Undefined

\* a WARN event was appended and its packet has level 4
C9_Witness ==
  /\ lastCall.op = "append"
  /\ lastCall.event.level = "WARN"
  /\ lastCall.msg["level"] = Num(4)
  /\ ~lastCall.threw

\* C10: every datagram sent encodes an object with the keys version,
\* short_message, host, timestamp and level
C10_RequiredKeys ==
  \A i \in 1..Len(sendCalls) :
    {"version", "short_message", "host", "timestamp", "level"}
      \subseteq DOMAIN sendCalls[i].buffer.payload

\* C11: the exit hook is registered at construction and until the first
\* shutdown; a process exit after a shutdown makes no close call and leaves
\* the socket as it is, a process exit with no shutdown before closes the
\* socket with one call
C11_HookRunsAtMostOnce ==
  [][/\ (closeCalls = 0 /\ ~exited) => exitListener
     /\ (closeCalls > 0 /\ ~exited) => ~exitListener'
     /\ (~exited /\ exited') =>
          IF closeCalls > 0
            THEN closeCalls' = closeCalls /\ clientOpen' = clientOpen
            ELSE closeCalls' = 1 /\ clientOpen /\ ~clientOpen']_vars

\* the process exited after one shutdown and close was called once in all
C11_Witness ==
  /\ exited
  /\ ~exitListener
  /\ ~clientOpen
  /\ closeCalls = 1

\* C12: a step that is an append call leaves the gzip results, the send
\* calls and the dropped set as they are and, unless it throws, leaves the
\* event's compression pending; a size check or a send happens only in a
\* step that completes a pending compression
C12_AppendReturnsFirst ==
  [][/\ nextId' # nextId =>
          /\ gzipResults' = gzipResults
          /\ sendCalls' = sendCalls
          /\ sendPending' = sendPending
          /\ dropped' = dropped
          /\ ~lastCall'.threw => \E job \in pending' : job.id = nextId'
     /\ (sendCalls' # sendCalls \/ dropped' # dropped) =>
          /\ nextId' = nextId
          /\ \E job \in pending : job \notin pending']_vars

\* append has returned, the event's compression is pending, nothing was sent
C12_Witness ==
  /\ lastCall.op = "append"
  /\ ~lastCall.threw
  /\ \E job \in pending : job.id = lastCall.id
  /\ SendsOf(lastCall.id) = {}
  /\ \A r \in gzipResults : r.id # lastCall.id

\* C13: every event has at most one send call, none when its compression
\* failed or its packet is longer than 8192 bytes, and still only one after
\* its send failed
C13_AtMostOneSend ==
  \A id \in 1..nextId :
    /\ Cardinality(SendsOf(id)) <= 1
    /\ \A r \in gzipResults :
         (r.id = id /\ (r.err \/ r.packet.length > 8192)) => SendsOf(id) = {}
    /\ [id |-> id, from |-> "send"] \in errors => Cardinality(SendsOf(id)) = 1

\* one event's send failed after its only send call, another was dropped
C13_Witness ==
  /\ \E id \in 1..nextId :
       /\ [id |-> id, from |-> "send"] \in errors
       /\ Cardinality(SendsOf(id)) = 1
       /\ id \notin sendPending
  /\ \E id \in 1..nextId : id \in dropped /\ SendsOf(id) = {}

\* the second data item of the last append, after a carrier was removed
SecondKept == At(lastCall.data, 1)

\* C14 as stated: full_message is the stack field of the second data item
\* (after a carrier was removed) when that item is present, "" otherwise
C14_FullMessage ==
  lastCall.op = "append" =>
    lastCall.msg["full_message"] =
      (IF Len(lastCall.data) >= 2 THEN GetProp(SecondKept, "stack") ELSE Str(""))

\* C14 amended: full_message is the stack field of the second data item
\* when that item is truthy, and "" when it is absent or falsy
C14_FullMessageAmended ==
  lastCall.op = "append" =>
    lastCall.msg["full_message"] =
      (IF Truthy(SecondKept) THEN GetProp(SecondKept, "stack") ELSE Str(""))

\* a carrier, a message and an error were appended: full_message is the
\* error's stack
C14_Witness ==
  /\ lastCall.op = "append"
  /\ lastCall.event.data = <<Carrier, Str("msg"), ErrorItem>>
  /\ lastCall.data = <<Str("msg"), ErrorItem>>
  /\ lastCall.msg["full_message"] = Str("trace...")

\* the key '_' + appendCategory
CategoryKey == "_" \o appendCategory.v

\* C15 as stated: with appendCategory configured, the packet's category key
\* always holds the event's category name
C15_CategoryAlways ==
  (lastCall.op = "append" /\ appendCategory.t = "string") =>
    /\ CategoryKey \in DOMAIN lastCall.msg
    /\ lastCall.msg[CategoryKey] = lastCall.event.categoryName

\* C15 amended: it holds the category name unless the event's carrier
\* defines the category key and that key is not _id; then it holds the
\* carrier's value
C15_CategoryUnlessCarrier ==
  (lastCall.op = "append" /\ appendCategory.t = "string") =>
    /\ CategoryKey \in DOMAIN lastCall.msg
    /\ lastCall.msg[CategoryKey] =
         (IF CarrierDefines(CategoryKey) /\ CategoryKey # "_id"
            THEN FirstPassed.f[CategoryKey]
            ELSE lastCall.event.categoryName)

\* the defaults define the category key, the event has no carrier, and the
\* packet holds the category name
C15_Witness ==
  /\ NoCarrierAppended
  /\ appendCategory = Str("cat")
  /\ "_cat" \in DOMAIN defaultCustomFields
  /\ defaultCustomFields["_cat"] # lastCall.event.categoryName
  /\ lastCall.msg["_cat"] = lastCall.event.categoryName

ReservedKeys ==
  {"version", "short_message", "full_message", "timestamp", "host", "level"}

\* C16: every key of a built packet is a reserved key or begins with '_',
\* and version, host, timestamp and level hold the builder's values
C16_ReservedKeysKept ==
  lastCall.op = "append" =>
    /\ \A k \in DOMAIN lastCall.msg :
         k \in ReservedKeys \/ (Len(k) > 0 /\ SubSeq(k, 1, 1) = "_")
    /\ lastCall.msg["version"] = Str("1.1")
    /\ lastCall.msg["host"] = hostname
    /\ lastCall.msg["timestamp"] = Num(lastCall.now)
    /\ lastCall.msg["level"] = MapLevel(lastCall.event.level)

\* the defaults have a key host, the carrier keys level, timestamp and GELF
C16_Witness ==
  /\ lastCall.op = "append"
  /\ "host" \in DOMAIN defaultCustomFields
  /\ FirstPassed = Carrier
  /\ {"level", "timestamp", "GELF"} \subseteq DOMAIN FirstPassed.f
  /\ lastCall.msg["host"] = hostname
  /\ lastCall.msg["timestamp"] = Num(lastCall.now)
  /\ "GELF" \notin DOMAIN lastCall.msg

\* the defaults as gelfAppender computed them from the configuration
ConstructionDefaults ==
  { MakeDefaultCustomFields(c.customFields, c.facility) : c \in LifecycleConfigs }

\* the JSON texts built for the event id, queued or already compressed
JsonsOf(id) ==
  {job.json : job \in {x \in pending : x.id = id}}
    \cup {r.packet.payload : r \in {x \in gzipResults : x.id = id /\ ~x.err}}

\* C17: after any calls the defaults are what construction made them, and
\* the packet of an event without a carrier has no '_' key other than the
\* category key and the default keys with their default values
C17_DefaultsFixed ==
  /\ defaultCustomFields \in ConstructionDefaults
  /\ NoCarrierAppended =>
       \A k \in DOMAIN lastCall.msg :
         (Len(k) > 0 /\ SubSeq(k, 1, 1) = "_") =>
           \/ IsCategoryKey(k) /\ lastCall.msg[k] = lastCall.event.categoryName
           \/ \E d \in ConstructionDefaults : k \in DOMAIN d /\ lastCall.msg[k] = d[k]

\* the first event carried _x and overwrote _a, the second has no carrier:
\* its packet has no _x and the default _a
C17_Witness ==
  /\ NoCarrierAppended
  /\ lastCall.id = 2
  /\ \E j \in JsonsOf(1) : "_x" \in DOMAIN j /\ j["_a"] = Num(2)
  /\ "_x" \notin DOMAIN lastCall.msg
  /\ lastCall.msg["_a"] = Num(1)
  /\ closeCalls > 0

\* C18: whatever the append order, the callback of every pending
\* compression may run next, and a send call is issued in the very step in
\* which the event's compression completes, so sends follow completion order
C18_NoOrderImposed ==
  [][/\ Running => \A job \in pending : ENABLED GzipCallback(job)
     /\ sendCalls' # sendCalls =>
          \E job \in pending :
            /\ job \notin pending'
            /\ Len(sendCalls') = Len(sendCalls) + 1
            /\ SubSeq(sendCalls', 1, Len(sendCalls)) = sendCalls
            /\ sendCalls'[Len(sendCalls')].id = job.id]_vars

\* the second event's datagram was handed to the socket before the first's
C18_Witness ==
  /\ Len(sendCalls) = 2
  /\ sendCalls[1].id = 2
  /\ sendCalls[2].id = 1

====
